---- MODULE Spec2Model ----
(***************************************************************************)
(* Telemarketing analysis (src/app_7.py): the filter-and-aggregate pipeline *)
(* that main() runs on every script run of one browser session.            *)
(*                                                                         *)
(* A DataFrame is a record [columns, index, data]: the column labels, the   *)
(* row labels and the rows in order (a row maps each column to a cell).     *)
(* A categorical cell is a string, NaN when missing.  An age cell is <<>>   *)
(* when missing and <<n>> otherwise, n being the age in HALF years, so that *)
(* a non-integer age (30.5 is <<61>>) and int()'s truncation can be told    *)
(* apart from an integer one.  A percentage is the exact fraction           *)
(* <<numerator, denominator>>.                                              *)
(***************************************************************************)
EXTENDS Integers, Sequences, FiniteSets, TLC

VARIABLES
    data_file_1,            \* the uploaded file of the session (NoFile before the upload)
    pos,                    \* read position of the uploaded stream
    load_cache,             \* st.cache_data store of load_data
    submitted,              \* widget values of the form: <<>> before a submission, <<w>> after
    status,                 \* how the last script run ended
    error,                  \* the error that ended it ("None" when it ran to the end)
    missing,                \* the column names reported by st.error
    bank_raw,               \* the loaded table
    bank,                   \* the filtered table
    idades,                 \* the slider value the run used
    selected,               \* the multiselect values the run used
    bank_raw_target_perc,   \* summary of y over the loaded table
    bank_target_perc,       \* summary of y shown for the filtered table
    messages,               \* st.info / st.warning / st.error boxes of the run
    downloads,              \* the download buttons' payloads
    reads,                  \* the parse attempts of the run: <<parser, start position>>
    call,                   \* arguments of a direct multiselect_filter call
    ret                     \* its return value

session == <<data_file_1, pos, load_cache, submitted>>
output  == <<status, error, missing, bank_raw, bank, idades, selected,
             bank_raw_target_perc, bank_target_perc, messages, downloads, reads>>
direct  == <<call, ret>>
vars    == <<session, output, direct>>

(* ------------------------------- bounds -------------------------------- *)
MaxRows == 2

(* ------------------------------ utilities ------------------------------ *)
Range(s) == {s[i] : i \in 1..Len(s)}

NaN == "NaN"

\* Every string of the model in Python's str order: sorted() and sort_index().
StrOrder ==
    <<"admin", "all", "blue-collar", "cellular", "jun", "married", "may", "mon",
      "no", "single", "telephone", "tue", "unknown", "yes">>

sorted(S) == SelectSeq(StrOrder, LAMBDA x : x \in S)

NoFrame == [columns |-> <<>>, index |-> <<>>, data |-> <<>>]

\* df[col]: the cells of one column, in row order.
Series(df, col) == [i \in 1..Len(df.data) |-> df.data[i][col]]

\* df[mask]: the rows at the positions where the boolean series holds, labels kept.
BoolIndex(df, mask) ==
    LET at == SelectSeq([i \in 1..Len(df.data) |-> i], LAMBDA i : mask[i])
    IN  [columns |-> df.columns,
         index   |-> [k \in 1..Len(at) |-> df.index[at[k]]],
         data    |-> [k \in 1..Len(at) |-> df.data[at[k]]]]

reset_index(df) == [df EXCEPT !.index = [k \in 1..Len(df.data) |-> k - 1]]

empty(df) == Len(df.data) = 0

(* ---------------------------- Table Loader ----------------------------- *)
NoFile == [kind |-> "none", content |-> NoFrame]

Size(file_data) == Len(file_data.content.data) + 1

\* pd.read_csv(file_data, sep=";") reads from the current position to the end.
read_csv(file_data, p) ==
    IF file_data.kind = "csv" /\ p = 0
    THEN [ok |-> TRUE,  df |-> file_data.content, pos |-> Size(file_data),
          reads |-> <<<<"read_csv", p>>>>]
    ELSE [ok |-> FALSE, df |-> NoFrame,           pos |-> Size(file_data),
          reads |-> <<<<"read_csv", p>>>>]

\* pd.read_excel(file_data) reads from the current position to the end.
read_excel(file_data, p) ==
    IF file_data.kind = "xlsx" /\ p = 0
    THEN [ok |-> TRUE,  df |-> file_data.content, pos |-> Size(file_data),
          reads |-> <<<<"read_excel", p>>>>]
    ELSE [ok |-> FALSE, df |-> NoFrame,           pos |-> Size(file_data),
          reads |-> <<<<"read_excel", p>>>>]

seek_skipped(p, offset) == p

seek(p, offset) == offset

\* The body of load_data; ok = FALSE is the exception of read_excel, uncaught.
load_data_body(file_data, p) ==
    LET first == read_csv(file_data, p)
    IN  IF first.ok THEN first
        ELSE LET second == read_excel(file_data, seek(first.pos, 0))
             IN  [second EXCEPT !.reads = first.reads \o second.reads]

cache_never_hit(cache, file_data) == FALSE

cache_hit(cache, file_data) == \E e \in cache : e.key = file_data

\* @st.cache_data: a hit returns the stored table and does not touch the stream.
load_data(file_data, p, cache) ==
    IF cache_hit(cache, file_data)
    THEN [ok |-> TRUE, df |-> (CHOOSE e \in cache : e.key = file_data).value,
          pos |-> p, cache |-> cache, reads |-> <<>>]
    ELSE LET r == load_data_body(file_data, p)
         IN  [ok |-> r.ok, df |-> r.df, pos |-> r.pos, reads |-> r.reads,
              cache |-> IF r.ok THEN cache \cup {[key |-> file_data, value |-> r.df]}
                        ELSE cache]

(* ---------------------------- Filter Engine ----------------------------- *)
\* Series.isin(values): membership by equality, cell by cell; like pandas it
\* would match a missing cell if NaN were among the values.
isin(series, values) == [i \in 1..Len(series) |-> series[i] \in values]

filter_ignoring_all(relatorio, col, selecionados) ==
    reset_index(BoolIndex(relatorio, isin(Series(relatorio, col), selecionados)))

filter_skipped(relatorio, col, selecionados) == relatorio

filter_all_alone(relatorio, col, selecionados) ==
    IF selecionados = {"all"}
    THEN relatorio
    ELSE reset_index(BoolIndex(relatorio, isin(Series(relatorio, col), selecionados)))

multiselect_filter(relatorio, col, selecionados) ==
    IF "all" \in selecionados
    THEN relatorio
    ELSE reset_index(BoolIndex(relatorio, isin(Series(relatorio, col), selecionados)))

\* bank.query("age >= @idades[0] and age <= @idades[1]"): a comparison with a
\* missing age is False; ages are in half years, the slider values in years.
query_age(df, range) ==
    LET age == Series(df, "age")
    IN  BoolIndex(df, [i \in 1..Len(age) |-> /\ age[i] # <<>>
                                             /\ age[i][1] >= 2 * range[1]
                                             /\ age[i][1] <= 2 * range[2]])

(* ----------------------------- form widgets ---------------------------- *)
required_cols ==
    <<"age", "job", "marital", "default", "housing", "loan",
      "contact", "month", "day_of_week", "y">>

\* The columns of the eight multiselects, in the order the filters are piped.
CatCols ==
    <<"job", "marital", "default", "housing", "loan",
      "contact", "month", "day_of_week">>

\* Series.max() / Series.min() skip missing cells.
AgeValues(df) == {df.data[i]["age"][1] : i \in {j \in 1..Len(df.data) : df.data[j]["age"] # <<>>}}

age_max(df) == CHOOSE a \in AgeValues(df) : \A b \in AgeValues(df) : b <= a

age_min(df) == CHOOSE a \in AgeValues(df) : \A b \in AgeValues(df) : a <= b

\* int() of an age in half years: truncation toward zero.
int(n) == IF n >= 0 THEN n \div 2 ELSE -((-n) \div 2)

max_age(df) == int(age_max(df))

min_age(df) == int(age_min(df))

\* df[col].unique().tolist()
unique(df, col) == {df.data[i][col] : i \in 1..Len(df.data)}

plus_all(unique_list) == Append(sorted({x \in unique_list : x # NaN}), "all")

NoRange == <<0, -1>>

NoSelection == [c \in Range(CatCols) |-> {}]

\* The form as first rendered: value=(min_age, max_age) and ["all"] everywhere.
DefaultWidgets(df) ==
    [idades |-> <<min_age(df), max_age(df)>>,
     sel    |-> [c \in Range(CatCols) |-> {"all"}]]

(* ------------------------- Proportion Summarizer ----------------------- *)
NotNa(df, col) == SelectSeq(df.data, LAMBDA r : r[col] # NaN)

count_all_rows(df, col) == Len(df.data)

\* value_counts(normalize=True) divides by the number of non-missing cells.
count_non_missing(df, col) == Len(NotNa(df, col))

\* (df["y"].value_counts(normalize=True).sort_index() * 100).to_frame(name="y")
target_perc(df) ==
    LET ys   == NotNa(df, "y")
        keys == sorted({ys[i]["y"] : i \in 1..Len(ys)})
        n(v) == Len(SelectSeq(ys, LAMBDA r : r["y"] = v))
    IN  [columns |-> <<"y">>,
         index   |-> keys,
         data    |-> [k \in 1..Len(keys) |->
                        [y |-> <<100 * n(keys[k]), count_non_missing(df, "y")>>]]]

(* --------------------------- Export Serializer ------------------------- *)
\* df.to_excel(writer, index=False, sheet_name="Sheet1"): header and rows, no index.
to_excel_bytes(df) ==
    [format |-> "xlsx", sheet_name |-> "Sheet1", header |-> df.columns, rows |-> df.data]

(* --------------------------------- main -------------------------------- *)
every_required_col(df) == required_cols

\* missing = [c for c in required_cols if c not in bank.columns]
missing_cols(df) == SelectSeq(required_cols, LAMBDA c : c \notin Range(df.columns))

\* Lines 132-142: the range filter, then the eight selections, piped in order.
apply_filters(df, w) ==
    LET b0 == query_age(df, w.idades)
        b1 == multiselect_filter(b0, "job",         w.sel["job"])
        b2 == multiselect_filter(b1, "marital",     w.sel["marital"])
        b3 == multiselect_filter(b2, "default",     w.sel["default"])
        b4 == multiselect_filter(b3, "housing",     w.sel["housing"])
        b5 == multiselect_filter(b4, "loan",        w.sel["loan"])
        b6 == multiselect_filter(b5, "contact",     w.sel["contact"])
        b7 == multiselect_filter(b6, "month",       w.sel["month"])
        b8 == multiselect_filter(b7, "day_of_week", w.sel["day_of_week"])
    IN  b8

summary_without_fallback(raw_perc, filtered) == target_perc(filtered)

\* Lines 157-161: the summary shown and exported for the filtered table.
filtered_target_perc(raw_perc, filtered) ==
    IF empty(filtered) THEN raw_perc ELSE target_perc(filtered)

\* Lines 146-147 and 159: the boxes shown when nothing matches.
filter_messages(filtered) ==
    IF empty(filtered) THEN {"warning: no row matches", "info: original proportion used"}
    ELSE {}

\* Lines 164-180: the two download buttons.
download_buttons(raw_perc, perc) ==
    {[file_name |-> "bank_raw_y.xlsx", data |-> to_excel_bytes(raw_perc)],
     [file_name |-> "bank_y.xlsx",     data |-> to_excel_bytes(perc)]}

Ended(st, err, miss, raw, b, msgs, L) ==
    [status |-> st, error |-> err, missing |-> miss, bank_raw |-> raw, bank |-> b,
     idades |-> NoRange, selected |-> NoSelection,
     bank_raw_target_perc |-> NoFrame, bank_target_perc |-> NoFrame,
     messages |-> msgs, downloads |-> {}, reads |-> L.reads,
     pos |-> L.pos, load_cache |-> L.cache]

\* One script run of main() on an uploaded file: p and cache are the stream
\* position and the load_data cache it starts with, sub the submitted form
\* (<<>> on the first run, when every widget shows its default value).
main(file_data, p, cache, sub) ==
    LET L == load_data(file_data, p, cache)
    IN  IF ~L.ok
        THEN Ended("load_error", "ReadExcelError", <<>>, NoFrame, NoFrame, {}, L)
        ELSE
        LET raw  == L.df
            copy == raw
            miss == missing_cols(copy)
        IN  IF miss # <<>>
            THEN Ended("stopped", "MissingColumns", miss, raw, copy,
                       {"error: required columns not found"}, L)
            ELSE IF AgeValues(copy) = {}
            THEN Ended("form_error", "IntOfNaN", <<>>, raw, copy, {}, L)
            ELSE
            LET w        == IF sub = <<>> THEN DefaultWidgets(copy) ELSE sub[1]
                filtered == apply_filters(copy, w)
                raw_perc == target_perc(raw)
                perc     == filtered_target_perc(raw_perc, filtered)
            IN  [status |-> "done", error |-> "None", missing |-> <<>>,
                 bank_raw |-> raw, bank |-> filtered,
                 idades |-> w.idades, selected |-> w.sel,
                 bank_raw_target_perc |-> raw_perc, bank_target_perc |-> perc,
                 messages |-> filter_messages(filtered),
                 downloads |-> download_buttons(raw_perc, perc),
                 reads |-> L.reads, pos |-> L.pos, load_cache |-> L.cache]

(* -------------------------------- inputs ------------------------------- *)
AllCols == required_cols \o <<"duration">>

Row(age, job, marital, default, housing, loan, contact, month, day, y) ==
    [c \in Range(AllCols) |->
        CASE c = "age"         -> age
          [] c = "job"         -> job
          [] c = "marital"     -> marital
          [] c = "default"     -> default
          [] c = "housing"     -> housing
          [] c = "loan"        -> loan
          [] c = "contact"     -> contact
          [] c = "month"       -> month
          [] c = "day_of_week" -> day
          [] c = "y"           -> y
          [] OTHER             -> <<120>>]

\* The rows an upload is made of: ages 30, 30.5, missing and 31.
Pool ==
    {Row(<<60>>, "admin",       "married", "no",      "yes", "no",  "cellular",  "may", "mon", "yes"),
     Row(<<61>>, "blue-collar", "single",  "unknown", "no",  "no",  "telephone", "may", "tue", "no"),
     Row(<<>>,   "admin",       NaN,       "no",      "yes", NaN,   "cellular",  "jun", "mon", "no"),
     Row(<<62>>, NaN,           "married", "no",      NaN,   "yes", NaN,         "jun", "tue", NaN)}

ColumnChoices ==
    {required_cols,
     AllCols,
     SelectSeq(required_cols, LAMBDA c : c # "y"),
     SelectSeq(required_cols, LAMBDA c : c \notin {"age", "job"}),
     <<"duration">>}

Frame(cols, rows) ==
    [columns |-> cols,
     index   |-> [k \in 1..Len(rows) |-> k - 1],
     data    |-> [k \in 1..Len(rows) |-> [c \in Range(cols) |-> rows[k][c]]]]

Tables(cols) == {Frame(cols, rows) : rows \in UNION {[1..n -> Pool] : n \in 0..MaxRows}}

Files ==
    {[kind |-> "other", content |-> NoFrame]}
    \cup {[kind |-> k, content |-> t] :
            k \in {"csv", "xlsx"}, t \in UNION {Tables(cols) : cols \in ColumnChoices}}

options(df, c) == Range(plus_all(unique(df, c)))

Ranges(df) ==
    {r \in (min_age(df)..max_age(df)) \X (min_age(df)..max_age(df)) : r[1] <= r[2]}

\* What the user leaves selected in one multiselect of the form: nothing, one
\* option, every value, or every option ("all" together with the values).
Selections(df, c) ==
    {{}} \cup {{v} : v \in options(df, c)}
         \cup {options(df, c) \ {"all"}} \cup {options(df, c)}

\* A submitted form that restricts the age range and at most one column.
FilterSpecs(df) ==
    UNION {{[idades |-> r, sel |-> [c \in Range(CatCols) |-> IF c = d THEN S ELSE {"all"}]] :
                r \in Ranges(df), S \in Selections(df, d)} : d \in Range(CatCols)}

\* A submitted form that restricts the age range and at most two columns.
FilterSpecsTwo(df) ==
    UNION {{[idades |-> r,
             sel |-> [c \in Range(CatCols) |->
                        IF c = d[1] THEN S[1] ELSE IF c = d[2] THEN S[2] ELSE {"all"}]] :
                r \in Ranges(df),
                S \in Selections(df, d[1]) \X Selections(df, d[2])} :
           d \in {e \in Range(CatCols) \X Range(CatCols) : e[1] # e[2]}}

\* The arguments of a direct multiselect_filter call: any table, or what the
\* range filter leaves of it, and any choice among the column's options.
NoCall == [relatorio |-> NoFrame, col |-> "job", selecionados |-> {}, returned |-> FALSE]

Inputs(df) ==
    {df} \cup (IF AgeValues(df) = {} THEN {} ELSE {query_age(df, r) : r \in Ranges(df)})

Calls ==
    UNION {{[relatorio |-> t, col |-> x[2], selecionados |-> S, returned |-> FALSE] :
                t \in Inputs(x[1]), S \in SUBSET options(x[1], x[2])} :
           x \in Tables(required_cols) \X Range(CatCols)}

(* ------------------------------- actions ------------------------------- *)
InitSession ==
    /\ data_file_1 = NoFile
    /\ pos = 0
    /\ load_cache = {}
    /\ submitted = <<>>
    /\ status = "waiting"
    /\ error = "None"
    /\ missing = <<>>
    /\ bank_raw = NoFrame
    /\ bank = NoFrame
    /\ idades = NoRange
    /\ selected = NoSelection
    /\ bank_raw_target_perc = NoFrame
    /\ bank_target_perc = NoFrame
    /\ messages = {"info: upload a file"}
    /\ downloads = {}
    /\ reads = <<>>

Init ==
    /\ InitSession
    /\ call = NoCall
    /\ ret = NoFrame

\* The variables a script run writes, from the record main returns.
Shown(r) ==
    /\ pos' = r.pos
    /\ load_cache' = r.load_cache
    /\ status' = r.status
    /\ error' = r.error
    /\ missing' = r.missing
    /\ bank_raw' = r.bank_raw
    /\ bank' = r.bank
    /\ idades' = r.idades
    /\ selected' = r.selected
    /\ bank_raw_target_perc' = r.bank_raw_target_perc
    /\ bank_target_perc' = r.bank_target_perc
    /\ messages' = r.messages
    /\ downloads' = r.downloads
    /\ reads' = r.reads

\* The user uploads a file: the script runs with the form at its defaults.
Upload(f) ==
    /\ data_file_1 = NoFile
    /\ data_file_1' = f
    /\ submitted' = <<>>
    /\ Shown(main(f, pos, load_cache, <<>>))
    /\ UNCHANGED direct

\* The user presses "Aplicar": the script runs again with the form's values.
Submit(w) ==
    /\ status = "done"
    /\ submitted' = <<w>>
    /\ UNCHANGED data_file_1
    /\ Shown(main(data_file_1, pos, load_cache, <<w>>))
    /\ UNCHANGED direct

Next ==
    \/ \E f \in Files : Upload(f)
    \/ /\ status = "done"
       /\ \E w \in FilterSpecs(bank_raw) : Submit(w)

Spec == Init /\ [][Next]_vars

\* One upload and one submission, of a form restricting up to two columns.
NextPipe ==
    \/ \E f \in Files : Upload(f)
    \/ /\ status = "done"
       /\ submitted = <<>>
       /\ \E w \in FilterSpecsTwo(bank_raw) : Submit(w)

SpecPipe == Init /\ [][NextPipe]_vars

\* multiselect_filter called on its own.
InitDirect ==
    /\ InitSession
    /\ call \in Calls
    /\ ret = NoFrame

Call ==
    /\ ~call.returned
    /\ ret' = multiselect_filter(call.relatorio, call.col, call.selecionados)
    /\ call' = [call EXCEPT !.returned = TRUE]
    /\ UNCHANGED <<session, output>>

NextDirect == Call

SpecDirect == InitDirect /\ [][NextDirect]_vars

(* ================================ claims =============================== *)
\* The row satisfies every predicate of the form at once.
Matches(r, range, sel) ==
    /\ r["age"] # <<>>
    /\ 2 * range[1] <= r["age"][1]
    /\ r["age"][1] <= 2 * range[2]
    /\ \A c \in Range(CatCols) : \/ "all" \in sel[c]
                                \/ (r[c] # NaN /\ r[c] \in sel[c])

Intersection(df, range, sel) == SelectSeq(df.data, LAMBDA r : Matches(r, range, sel))

Restricted == {c \in Range(CatCols) : "all" \notin selected[c]}

IdentitySpec ==
    /\ idades = <<min_age(bank_raw), max_age(bank_raw)>>
    /\ \A c \in Range(CatCols) : selected[c] = {"all"}

RECURSIVE SumNumerators(_)
SumNumerators(cells) ==
    IF cells = <<>> THEN 0 ELSE Head(cells)["y"][1] + SumNumerators(Tail(cells))

\* The fractions of a summary have one positive denominator and add up to 100.
SumsTo100(perc) ==
    /\ Len(perc.data) > 0
    /\ LET d == perc.data[1]["y"][2]
       IN  /\ d > 0
           /\ \A i \in 1..Len(perc.data) : perc.data[i]["y"][2] = d
           /\ SumNumerators(perc.data) = 100 * d

HasY(df) == \E i \in 1..Len(df.data) : df.data[i]["y"] # NaN

Payload(name) == {b.data : b \in {x \in downloads : x.file_name = name}}

NothingDerived ==
    /\ idades = NoRange
    /\ selected = NoSelection
    /\ bank_raw_target_perc = NoFrame
    /\ bank_target_perc = NoFrame
    /\ downloads = {}

FileLoaded == data_file_1.kind \in {"csv", "xlsx"}

Absent == {c \in Range(required_cols) : c \notin Range(data_file_1.content.columns)}

\* C1: with the age range at its default [min_age, max_age] and every selection
\* "all", the filtered table is the loaded table, row for row, none dropped
\* (rows with a missing or non-integer age included).
C1_IdentityFilter ==
    (status = "done" /\ IdentitySpec) => bank.data = bank_raw.data

\* C2: when the filtered table has no rows, the summary shown and exported as
\* bank_y.xlsx is the summary of the loaded table, the fallback is announced
\* and the run ends without an error.
C2_Fallback ==
    (status = "done" /\ empty(bank)) =>
        /\ bank_target_perc = bank_raw_target_perc
        /\ Payload("bank_y.xlsx") = {to_excel_bytes(bank_raw_target_perc)}
        /\ Payload("bank_y.xlsx") = Payload("bank_raw_y.xlsx")
        /\ "info: original proportion used" \in messages
        /\ error = "None"

C2_Witness ==
    /\ status = "done"
    /\ submitted # <<>>
    /\ empty(bank)
    /\ Len(bank_raw.data) > 1
    /\ Len(bank_raw_target_perc.data) > 1
    /\ "info: original proportion used" \in messages

\* C3 as stated: the percentages of the summary of any non-empty table the
\* run summarizes sum to 100, also when every y is missing.
C3_SumIs100 ==
    status = "done" =>
        /\ SumsTo100(bank_raw_target_perc)
        /\ ~empty(bank) => SumsTo100(bank_target_perc)

\* C3 amended: the percentages sum to 100 for every summarized table with at
\* least one non-missing y; when every y is missing the summary has no entry.
C3_SumIs100WhenSomeY ==
    status = "done" =>
        /\ IF HasY(bank_raw) THEN SumsTo100(bank_raw_target_perc)
           ELSE empty(bank_raw_target_perc)
        /\ ~empty(bank) =>
              IF HasY(bank) THEN SumsTo100(bank_target_perc)
              ELSE empty(bank_target_perc)

C3_Witness ==
    /\ status = "done"
    /\ submitted # <<>>
    /\ ~empty(bank)
    /\ Len(bank.data) < Len(bank_raw.data)
    /\ HasY(bank)
    /\ \E i \in 1..Len(bank_raw.data) : bank_raw.data[i]["y"] = NaN
    /\ Len(bank_raw_target_perc.data) > 0
    /\ bank_raw_target_perc.data[1]["y"][2] < Len(bank_raw.data)

\* C4: multiselect_filter with the selection {v} returns exactly the rows whose
\* cell equals v, in order (a missing cell never matches); with the empty
\* selection it returns no row; with "all" it returns the table unchanged.
C4_Selection ==
    call.returned =>
        /\ call.selecionados = {"all"} => ret = call.relatorio
        /\ call.selecionados = {} => empty(ret)
        /\ "all" \notin call.selecionados =>
              \A i \in 1..Len(ret.data) : ret.data[i][call.col] # NaN
        /\ \A v \in call.selecionados \ {"all"} :
              call.selecionados = {v} =>
                  /\ \A i \in 1..Len(ret.data) : ret.data[i][call.col] = v
                  /\ ret.data = SelectSeq(call.relatorio.data,
                                          LAMBDA r : r[call.col] = v)

C4_Witness ==
    /\ call.returned
    /\ Cardinality(call.selecionados) = 1
    /\ "all" \notin call.selecionados
    /\ 0 < Len(ret.data)
    /\ Len(ret.data) < Len(call.relatorio.data)
    /\ \E i \in 1..Len(call.relatorio.data) : call.relatorio.data[i][call.col] = NaN

\* C5: a loaded table that lacks required columns ends the run with
\* MissingColumns naming exactly the absent columns; no filter is built or
\* applied, no summary computed, no export produced.
C5_MissingColumns ==
    (FileLoaded /\ Absent # {}) =>
        /\ status = "stopped"
        /\ error = "MissingColumns"
        /\ missing = SelectSeq(required_cols, LAMBDA c : c \in Absent)
        /\ "error: required columns not found" \in messages
        /\ bank.data = bank_raw.data
        /\ NothingDerived

C5_Witness ==
    /\ status = "stopped"
    /\ missing = <<"age", "job">>
    /\ Len(bank_raw.data) > 0

\* C6: load_data reads the upload as semicolon text first, from the start; only
\* when that fails does it rewind and read it as a workbook, from position 0;
\* when both fail the run ends with that one error, after two attempts, and
\* nothing is filtered or summarized.
C6_Loader ==
    data_file_1 # NoFile =>
        /\ reads \in {<<>>, <<<<"read_csv", 0>>>>,
                      <<<<"read_csv", 0>>, <<"read_excel", 0>>>>}
        /\ Len(reads) = 2 => data_file_1.kind # "csv"
        /\ FileLoaded => (status # "load_error" /\ bank_raw = data_file_1.content)
        /\ data_file_1.kind = "other" =>
              /\ status = "load_error"
              /\ error = "ReadExcelError"
              /\ Len(reads) = 2
              /\ bank_raw = NoFrame
              /\ bank = NoFrame
              /\ NothingDerived

C6_Witness ==
    /\ data_file_1.kind = "xlsx"
    /\ reads = <<<<"read_csv", 0>>, <<"read_excel", 0>>>>
    /\ status = "done"
    /\ Len(bank_raw.data) > 1

\* C7: the filtered table is exactly the rows of the loaded table, in order,
\* that satisfy the age range (bounds inclusive, missing age excluded) and
\* every one of the eight selections ("all" among the selected, or the cell
\* among the selected); no predicate is skipped, no matching row dropped.
C7_Conjunction ==
    status = "done" => bank.data = Intersection(bank_raw, idades, selected)

C7_Witness ==
    /\ status = "done"
    /\ submitted # <<>>
    /\ Cardinality(Restricted) = 2
    /\ idades # <<min_age(bank_raw), max_age(bank_raw)>>
    /\ 0 < Len(bank.data)
    /\ Len(bank.data) < Len(bank_raw.data)

\* C8: when the loaded table has no rows the run ends with an EmptyTable error
\* and produces no summary and no export.
C8_EmptyTable ==
    (FileLoaded /\ Absent = {} /\ empty(data_file_1.content)) =>
        /\ error = "EmptyTable"
        /\ NothingDerived

\* C9: a submission leaves the loaded table and its summary as they were, and
\* its filtered table is the filter of the loaded table by the submitted form
\* alone; submitting the same form again gives the same rows.
C9_Frame ==
    [][status = "done" =>
          /\ status' = "done"
          /\ bank_raw' = bank_raw
          /\ bank_raw_target_perc' = bank_raw_target_perc
          /\ bank'.data = Intersection(bank_raw, idades', selected')
          /\ (idades' = idades /\ selected' = selected) => bank' = bank]_vars

C9_Witness ==
    /\ status = "done"
    /\ submitted # <<>>
    /\ reads = <<>>
    /\ Len(bank.data) < Len(bank_raw.data)
    /\ bank_raw = data_file_1.content
    /\ Len(bank_raw_target_perc.data) > 1

\* C10: a selection that contains "all" next to explicit values restricts
\* nothing: multiselect_filter returns the table unchanged, so a table is
\* restricted only by a selection without "all".
C10_AllWins ==
    call.returned =>
        /\ "all" \in call.selecionados => ret = call.relatorio
        /\ ret.data # call.relatorio.data => "all" \notin call.selecionados

C10_Witness ==
    /\ call.returned
    /\ "all" \in call.selecionados
    /\ Cardinality(call.selecionados) > 1
    /\ \E i \in 1..Len(call.relatorio.data) :
          call.relatorio.data[i][call.col] \notin call.selecionados
    /\ ret = call.relatorio

====
